---- MODULE Spec2Model ----
(***************************************************************************)
(* Model of console-python/todo_app.py: the Task record, the TodoManager   *)
(* collection operations and the JSON backing file.                        *)
(*                                                                         *)
(* Text is modelled as a sequence of one-character strings, so that        *)
(* str.lower, str.strip and str.split are computed character by character  *)
(* as Python computes them.  Str("...") literals are written out, e.g.     *)
(* <<"l","o","w">>.  None is modelled by the empty tuple in an optional    *)
(* field: due_date is <<>> (None) or <<text>>.                             *)
(*                                                                         *)
(* out is the message the last handler printed, saved tells whether it     *)
(* called save_tasks, and shown is the listing the last query printed, a   *)
(* tuple of the printed fields per line.                                   *)
(***************************************************************************)
EXTENDS Integers, Sequences, FiniteSets, TLC

VARIABLES tasks, file, now, out, saved, shown

vars == <<tasks, file, now, out, saved, shown>>

(***************************************************************************)
(* Bounds of the exploration.                                              *)
(***************************************************************************)
MaxId == 3
MaxClock == 1
MaxFieldTasks == 1
MaxQueryTasks == 2

(***************************************************************************)
(* Text primitives.                                                        *)
(***************************************************************************)
UpperChars == <<"A","B","C","D","E","F","G","H","I","J","K","L","M",
                "N","O","P","Q","R","S","T","U","V","W","X","Y","Z">>

LowerChars == <<"a","b","c","d","e","f","g","h","i","j","k","l","m",
                "n","o","p","q","r","s","t","u","v","w","x","y","z">>

Digits == <<"0","1","2","3","4","5","6","7","8","9">>

Whitespace == {" ", "\t", "\n"}

\* The characters the model uses, in code-point order.
CharOrder == <<"\t", "\n", " ", ",", "-">> \o Digits \o <<":">>
               \o UpperChars \o LowerChars

Ord(c) == CHOOSE i \in 1..Len(CharOrder) : CharOrder[i] = c

LowerChar(c) ==
    IF \E i \in 1..26 : UpperChars[i] = c
    THEN LowerChars[CHOOSE i \in 1..26 : UpperChars[i] = c]
    ELSE c

\* str.lower()
lower(s) == [i \in 1..Len(s) |-> LowerChar(s[i])]

RECURSIVE lstrip(_)
lstrip(s) ==
    IF s # <<>> /\ Head(s) \in Whitespace THEN lstrip(Tail(s)) ELSE s

RECURSIVE rstrip(_)
rstrip(s) ==
    IF s # <<>> /\ s[Len(s)] \in Whitespace
    THEN rstrip(SubSeq(s, 1, Len(s) - 1))
    ELSE s

\* str.strip()
strip(s) == rstrip(lstrip(s))

\* str.split(","): the pieces between commas; "" splits to [""].
RECURSIVE SplitFrom(_, _)
SplitFrom(s, piece) ==
    IF s = <<>> THEN <<piece>>
    ELSE IF Head(s) = "," THEN <<piece>> \o SplitFrom(Tail(s), <<>>)
    ELSE SplitFrom(Tail(s), Append(piece, Head(s)))

split(s) == SplitFrom(s, <<>>)

\* Python's str < str: lexicographic by code point, a proper prefix first.
RECURSIVE StrLess(_, _)
StrLess(a, b) ==
    IF b = <<>> THEN FALSE
    ELSE IF a = <<>> THEN TRUE
    ELSE IF Head(a) = Head(b) THEN StrLess(Tail(a), Tail(b))
    ELSE Ord(Head(a)) < Ord(Head(b))

\* bool(x) of a str or a list: non-empty.
Truthy(s) == s # <<>>

None == <<>>

Low == <<"l","o","w">>
Medium == <<"m","e","d","i","u","m">>
High == <<"h","i","g","h">>

\* The literal ["low", "medium", "high"] of add_task, update_task, sort_tasks.
PriorityList == <<Low, Medium, High>>

InPriorityList(p) == \E i \in 1..Len(PriorityList) : PriorityList[i] = p

\* list.index
PriorityIndex(p) == CHOOSE i \in 1..Len(PriorityList) : PriorityList[i] = p

(***************************************************************************)
(* The clock: datetime.now().strftime("%Y-%m-%d %H:%M:%S").  The model's   *)
(* clock counts seconds from midnight of a fixed day.                      *)
(***************************************************************************)
TwoDigits(n) == <<Digits[(n \div 10) + 1], Digits[(n % 10) + 1]>>

strftime(t) ==
    <<"2","0","2","5","-","0","1","-","0","1"," ">>
      \o TwoDigits((t \div 3600) % 24) \o <<":">>
      \o TwoDigits((t \div 60) % 60) \o <<":">>
      \o TwoDigits(t % 60)

(***************************************************************************)
(* Task.                                                                   *)
(***************************************************************************)
\* Task.__init__: "tags or []" and "created_at or <now>".
Task(id, title, description, priority, tags, due_date, completed, created_at, t) ==
    [id |-> id,
     title |-> title,
     description |-> description,
     priority |-> priority,
     tags |-> IF Truthy(tags) THEN tags ELSE <<>>,
     due_date |-> due_date,
     completed |-> completed,
     created_at |-> IF Truthy(created_at) THEN created_at ELSE strftime(t)]

\* Variant of to_dict that writes no due date.
to_dict_no_due(task) ==
    [id |-> task.id,
     title |-> task.title,
     description |-> task.description,
     priority |-> task.priority,
     tags |-> task.tags,
     due_date |-> None,
     completed |-> task.completed,
     created_at |-> task.created_at]

\* Task.to_dict: the JSON object written for a task.
to_dict(task) ==
    [id |-> task.id,
     title |-> task.title,
     description |-> task.description,
     priority |-> task.priority,
     tags |-> task.tags,
     due_date |-> task.due_date,
     completed |-> task.completed,
     created_at |-> task.created_at]

\* Variant of from_dict that does not hand created_at to the constructor.
from_dict_fresh(data, t) ==
    Task(data.id, data.title, data.description, data.priority, data.tags,
         data.due_date, data.completed, None, t)

\* Task.from_dict: Task(**data), at clock value t.
from_dict(data, t) ==
    Task(data.id, data.title, data.description, data.priority, data.tags,
         data.due_date, data.completed, data.created_at, t)

(***************************************************************************)
(* TodoManager.  tasks is self.tasks; file is the backing file: absent, or *)
(* the JSON document json.dump wrote (the list of task objects); now is    *)
(* the wall clock; out is the last message a handler printed; saved tells  *)
(* whether the last handler called save_tasks.                             *)
(***************************************************************************)
NoFile == [exists |-> FALSE, data |-> <<>>]

\* The text of the file, as JSON tokens: the brackets of the list, a whole
\* object per task, and an object cut short by an interrupted write.
JsonOpen == [tok |-> "[", obj |-> <<>>]
JsonClose == [tok |-> "]", obj |-> <<>>]
JsonObject(d) == [tok |-> "{}", obj |-> <<d>>]
JsonCut == [tok |-> "{", obj |-> <<>>]

\* json.dump of a list of objects.
json_dump(objs) ==
    <<JsonOpen>> \o [i \in 1..Len(objs) |-> JsonObject(objs[i])] \o <<JsonClose>>

\* Variant of the parser that does not ask for the closing bracket.
json_valid_lenient(text) ==
    /\ Len(text) >= 1
    /\ text[1] = JsonOpen
    /\ \A i \in 2..Len(text) :
          text[i].tok = "{}" \/ (i = Len(text) /\ text[i] = JsonClose)

\* json.load accepts the text: a list of whole objects, opened and closed.
json_valid(text) ==
    /\ Len(text) >= 2
    /\ text[1] = JsonOpen
    /\ text[Len(text)] = JsonClose
    /\ \A i \in 2..(Len(text) - 1) : text[i].tok = "{}"

\* json.load of a text it accepts: the objects of the list.
json_load(text) ==
    LET objects == SelectSeq(text, LAMBDA token : token.tok = "{}")
    IN [i \in 1..Len(objects) |-> objects[i].obj[1]]

\* TodoManager.save_tasks: overwrite the file with every task's to_dict.
save_tasks(ts) ==
    [exists |-> TRUE, data |-> json_dump([i \in 1..Len(ts) |-> to_dict(ts[i])])]

\* What an interrupted json.dump can leave of a text: a proper prefix of
\* it, which may end inside the next object.
Prefixes(text) ==
    {SubSeq(text, 1, n) : n \in 0..(Len(text) - 1)}
      \cup {SubSeq(text, 1, n) \o <<JsonCut>> :
              n \in {m \in 0..(Len(text) - 1) : text[m + 1].tok = "{}"}}

\* TodoManager.load_tasks on a file json.load accepts, at clock value t.
load_tasks(f, t) ==
    IF f.exists
    THEN LET data == json_load(f.data)
         IN [i \in 1..Len(data) |-> from_dict(data[i], t)]
    ELSE <<>>

\* max(iterable, default=0)
MaxOf(S) == IF S = {} THEN 0 ELSE CHOOSE m \in S : \A x \in S : x <= m

\* Variants of generate_id: the length of the list plus one; the smallest
\* id not in use.
generate_id_len(ts) == Len(ts) + 1

generate_id_gap(ts) ==
    CHOOSE n \in 1..(Len(ts) + 1) :
        /\ \A i \in 1..Len(ts) : ts[i].id # n
        /\ \A m \in 1..(n - 1) : \E i \in 1..Len(ts) : ts[i].id = m

\* TodoManager.generate_id
generate_id(ts) == MaxOf({ts[i].id : i \in 1..Len(ts)}) + 1

\* TodoManager.find_task: the position of the first task with the id, 0 for None.
find_task(ts, task_id) ==
    IF \E i \in 1..Len(ts) : ts[i].id = task_id
    THEN CHOOSE i \in 1..Len(ts) :
            /\ ts[i].id = task_id
            /\ \A j \in 1..(i - 1) : ts[j].id # task_id
    ELSE 0

\* [t.strip() for t in tags]
StripAll(pieces) == [i \in 1..Len(pieces) |-> strip(pieces[i])]

\* add_task line 90: [t.strip() for t in tags if t.strip()]
NonEmptyStripped(pieces) == SelectSeq(StripAll(pieces), Truthy)

\* Variant of lines 75-77 without the membership test.
AddPriority_unchecked(raw) == lower(raw)

\* add_task lines 75-77
AddPriority(raw) ==
    IF InPriorityList(lower(raw)) THEN lower(raw) ELSE Medium

\* add_task lines 79, 90
AddTags(raw) == NonEmptyStripped(split(lower(raw)))

\* add_task lines 81-83
AddDueDate(raw) == IF strip(raw) = <<>> THEN None ELSE <<raw>>

\* Variant of add_task that puts the new task at the front of the list.
add_task_front(title, description, priority, tags, due_date) ==
    LET new_task == Task(generate_id(tasks), title, description,
                         AddPriority(priority), AddTags(tags),
                         AddDueDate(due_date), FALSE, None, now)
    IN /\ tasks' = <<new_task>> \o tasks
       /\ file' = save_tasks(tasks')
       /\ saved' = TRUE
       /\ out' = "Task added successfully!"
       /\ UNCHANGED <<now, shown>>

\* TodoManager.add_task
add_task(title, description, priority, tags, due_date) ==
    LET new_task == Task(generate_id(tasks), title, description,
                         AddPriority(priority), AddTags(tags),
                         AddDueDate(due_date), FALSE, None, now)
    IN /\ tasks' = Append(tasks, new_task)
       /\ file' = save_tasks(tasks')
       /\ saved' = TRUE
       /\ out' = "Task added successfully!"
       /\ UNCHANGED <<now, shown>>

\* Variant of delete_task that drops the task at position task_id.
delete_task_by_index(task_id) ==
    /\ tasks' = [i \in 1..(Len(tasks) - (IF task_id \in 1..Len(tasks) THEN 1 ELSE 0)) |->
                    IF task_id \in 1..Len(tasks) /\ i >= task_id
                    THEN tasks[i + 1]
                    ELSE tasks[i]]
    /\ file' = save_tasks(tasks')
    /\ saved' = TRUE
    /\ out' = "Task deleted."
    /\ UNCHANGED <<now, shown>>

\* TodoManager.delete_task
delete_task(task_id) ==
    /\ tasks' = SelectSeq(tasks, LAMBDA task : task.id # task_id)
    /\ file' = save_tasks(tasks')
    /\ saved' = TRUE
    /\ out' = "Task deleted."
    /\ UNCHANGED <<now, shown>>

\* update_task lines 124-136: the field assignments on the found task.
UpdateTitle(task, title) ==
    IF Truthy(title) THEN title ELSE task.title

UpdateDescription(task, description) ==
    IF Truthy(description) THEN description ELSE task.description

\* Variant of lines 129-130 that coerces as add_task does.
UpdatePriority_coerced(task, priority) ==
    IF InPriorityList(lower(priority)) THEN lower(priority) ELSE Medium

UpdatePriority(task, priority) ==
    IF InPriorityList(lower(priority)) THEN lower(priority) ELSE task.priority

UpdateTags(task, tags) ==
    IF Truthy(strip(tags)) THEN StripAll(split(tags)) ELSE task.tags

UpdateDueDate(task, due_date) ==
    IF Truthy(strip(due_date)) THEN <<due_date>> ELSE task.due_date

UpdatedTask(task, title, description, priority, tags, due_date) ==
    [task EXCEPT !.title = UpdateTitle(task, title),
                 !.description = UpdateDescription(task, description),
                 !.priority = UpdatePriority(task, priority),
                 !.tags = UpdateTags(task, tags),
                 !.due_date = UpdateDueDate(task, due_date)]

\* Variant of update_task that saves before looking the task up.
update_task_saving(task_id, title, description, priority, tags, due_date) ==
    LET k == find_task(tasks, task_id)
    IN IF k = 0
       THEN /\ out' = "Task not found."
            /\ saved' = TRUE
            /\ file' = save_tasks(tasks)
            /\ UNCHANGED <<tasks, now, shown>>
       ELSE /\ tasks' = [tasks EXCEPT ![k] =
                           UpdatedTask(tasks[k], title, description,
                                       priority, tags, due_date)]
            /\ file' = save_tasks(tasks')
            /\ saved' = TRUE
            /\ out' = "Task updated."
            /\ UNCHANGED <<now, shown>>

\* TodoManager.update_task
update_task(task_id, title, description, priority, tags, due_date) ==
    LET k == find_task(tasks, task_id)
    IN IF k = 0
       THEN /\ out' = "Task not found."
            /\ saved' = FALSE
            /\ UNCHANGED <<tasks, file, now, shown>>
       ELSE /\ tasks' = [tasks EXCEPT ![k] =
                           UpdatedTask(tasks[k], title, description,
                                       priority, tags, due_date)]
            /\ file' = save_tasks(tasks')
            /\ saved' = TRUE
            /\ out' = "Task updated."
            /\ UNCHANGED <<now, shown>>

\* Variant of line 150 that marks the task completed instead of flipping.
Toggled_set(ts, k) == [ts EXCEPT ![k].completed = TRUE]

\* toggle_complete line 150 on the task at position k.
Toggled(ts, k) == [ts EXCEPT ![k].completed = ~ts[k].completed]

\* Variant of toggle_complete without the save_tasks call.
toggle_complete_unsaved(task_id) ==
    LET k == find_task(tasks, task_id)
    IN IF k = 0
       THEN /\ out' = "Task not found."
            /\ saved' = FALSE
            /\ UNCHANGED <<tasks, file, now, shown>>
       ELSE /\ tasks' = Toggled(tasks, k)
            /\ saved' = FALSE
            /\ out' = "Task status changed."
            /\ UNCHANGED <<file, now, shown>>

\* TodoManager.toggle_complete
toggle_complete(task_id) ==
    LET k == find_task(tasks, task_id)
    IN IF k = 0
       THEN /\ out' = "Task not found."
            /\ saved' = FALSE
            /\ UNCHANGED <<tasks, file, now, shown>>
       ELSE /\ tasks' = Toggled(tasks, k)
            /\ file' = save_tasks(tasks')
            /\ saved' = TRUE
            /\ out' = "Task status changed."
            /\ UNCHANGED <<now, shown>>

\* Variant of the sort keys whose title key is x.title, not x.title.lower().
KeyLess_cased(choice, a, b) ==
    IF choice = "1"
    THEN PriorityIndex(a.priority) < PriorityIndex(b.priority)
    ELSE IF choice = "2"
    THEN StrLess(a.title, b.title)
    ELSE StrLess(a.created_at, b.created_at)

\* The sort keys of sort_tasks, compared: key(a) < key(b).
KeyLess(choice, a, b) ==
    IF choice = "1"
    THEN PriorityIndex(a.priority) < PriorityIndex(b.priority)
    ELSE IF choice = "2"
    THEN StrLess(lower(a.title), lower(b.title))
    ELSE StrLess(a.created_at, b.created_at)

\* list.sort on a short list is a stable insertion sort: each element goes
\* in front of the first already-placed element with a strictly larger key.
RECURSIVE Insert(_, _, _)
Insert(choice, placed, x) ==
    IF placed = <<>> THEN <<x>>
    ELSE IF KeyLess(choice, x, Head(placed)) THEN <<x>> \o placed
    ELSE <<Head(placed)>> \o Insert(choice, Tail(placed), x)

RECURSIVE SortedBy(_, _)
SortedBy(choice, ts) ==
    IF ts = <<>> THEN <<>>
    ELSE Insert(choice, SortedBy(choice, SubSeq(ts, 1, Len(ts) - 1)), ts[Len(ts)])

\* Variant of sort_tasks that goes on to save_tasks after "Invalid choice.".
sort_tasks_saving(choice) ==
    IF choice \in {"1", "2", "3"}
    THEN /\ tasks' = SortedBy(choice, tasks)
         /\ file' = save_tasks(tasks')
         /\ saved' = TRUE
         /\ out' = "Tasks sorted."
         /\ UNCHANGED <<now, shown>>
    ELSE /\ out' = "Invalid choice."
         /\ file' = save_tasks(tasks)
         /\ saved' = TRUE
         /\ UNCHANGED <<tasks, now, shown>>

\* TodoManager.sort_tasks
sort_tasks(choice) ==
    IF choice \in {"1", "2", "3"}
    THEN /\ tasks' = SortedBy(choice, tasks)
         /\ file' = save_tasks(tasks')
         /\ saved' = TRUE
         /\ out' = "Tasks sorted."
         /\ UNCHANGED <<now, shown>>
    ELSE /\ out' = "Invalid choice."
         /\ saved' = FALSE
         /\ UNCHANGED <<tasks, file, now, shown>>

\* Python's "sub in text" on strings.
In(sub, text) ==
    \E p \in 0..(Len(text) - Len(sub)) :
       SubSeq(text, p + 1, p + Len(sub)) = sub

\* view_tasks lines 168-180: the block printed for a task.
ViewLine(task) ==
    <<task.id, task.title, task.description, task.priority, task.tags,
      task.due_date, task.created_at,
      IF task.completed THEN "Completed" ELSE "Not Completed">>

\* search_tasks line 193: the line printed for a task.
SearchLine(task) == <<task.id, task.title>>

\* filter_tasks line 216: the line printed for a task.
FilterLine(task) == <<task.id, task.title, task.priority>>

\* TodoManager.view_tasks
view_tasks ==
    /\ out' = IF tasks = <<>> THEN "No tasks found." ELSE "TASK LIST"
    /\ shown' = [i \in 1..Len(tasks) |-> ViewLine(tasks[i])]
    /\ saved' = FALSE
    /\ UNCHANGED <<tasks, file, now>>

\* Variant of line 185 that looks for the keyword as typed.
search_results_cased(ts, keyword) ==
    SelectSeq(ts, LAMBDA t : \/ In(keyword, lower(t.title))
                             \/ In(keyword, lower(t.description)))

\* search_tasks lines 184-185: the results for the keyword typed.
search_results(ts, keyword) ==
    SelectSeq(ts, LAMBDA t : \/ In(lower(keyword), lower(t.title))
                             \/ In(lower(keyword), lower(t.description)))

\* TodoManager.search_tasks
search_tasks(keyword) ==
    LET results == search_results(tasks, keyword)
    IN /\ out' = IF results = <<>> THEN "No matching tasks."
                                    ELSE "Search Results:"
       /\ shown' = [i \in 1..Len(results) |-> SearchLine(results[i])]
       /\ saved' = FALSE
       /\ UNCHANGED <<tasks, file, now>>

\* filter_tasks lines 204-210: the tasks kept for a recognised choice.
filtered(ts, choice, p) ==
    IF choice = "1"
    THEN SelectSeq(ts, LAMBDA t : t.completed)
    ELSE IF choice = "2"
    THEN SelectSeq(ts, LAMBDA t : ~t.completed)
    ELSE SelectSeq(ts, LAMBDA t : t.priority = p)

\* TodoManager.filter_tasks; p is read only for choice "3".
filter_tasks(choice, p) ==
    IF choice \in {"1", "2", "3"}
    THEN /\ out' = ""
         /\ shown' = [i \in 1..Len(filtered(tasks, choice, p)) |->
                         FilterLine(filtered(tasks, choice, p)[i])]
         /\ saved' = FALSE
         /\ UNCHANGED <<tasks, file, now>>
    ELSE /\ out' = "Invalid choice."
         /\ shown' = <<>>
         /\ saved' = FALSE
         /\ UNCHANGED <<tasks, file, now>>

\* What the terminal shows last when the process ended abnormally: the
\* traceback of json.load's error, which nothing catches, or the shell's
\* note that the process was killed.  No TodoManager exists then.
DecodeError == "json.decoder.JSONDecodeError"
Killed == "Killed"

Running == out \notin {DecodeError, Killed}

\* add_task, the process ending inside save_tasks after open(..., "w").
add_task_killed(title, description, priority, tags, due_date) ==
    LET new_task == Task(generate_id(tasks), title, description,
                         AddPriority(priority), AddTags(tags),
                         AddDueDate(due_date), FALSE, None, now)
    IN \E text \in Prefixes(save_tasks(Append(tasks, new_task)).data) :
          /\ file' = [exists |-> TRUE, data |-> text]
          /\ tasks' = <<>>
          /\ saved' = TRUE
          /\ out' = Killed
          /\ UNCHANGED <<now, shown>>

\* toggle_complete, the process ending inside save_tasks after open(..., "w").
toggle_complete_killed(task_id) ==
    LET k == find_task(tasks, task_id)
    IN /\ k # 0
       /\ \E text \in Prefixes(save_tasks(Toggled(tasks, k)).data) :
             /\ file' = [exists |-> TRUE, data |-> text]
             /\ tasks' = <<>>
             /\ saved' = TRUE
             /\ out' = Killed
             /\ UNCHANGED <<now, shown>>

\* Variant of TodoManager.__init__ that starts empty when json.load fails.
Reopen_lenient ==
    /\ tasks' = IF file.exists /\ ~json_valid(file.data)
                THEN <<>>
                ELSE load_tasks(file, now)
    /\ out' = ""
    /\ saved' = FALSE
    /\ UNCHANGED <<file, now, shown>>

\* main line 246 after an earlier run ended: TodoManager.__init__ on the
\* same file.
Reopen ==
    IF file.exists /\ ~json_valid(file.data)
    THEN /\ tasks' = <<>>
         /\ out' = DecodeError
         /\ saved' = FALSE
         /\ UNCHANGED <<file, now, shown>>
    ELSE /\ tasks' = load_tasks(file, now)
         /\ out' = ""
         /\ saved' = FALSE
         /\ UNCHANGED <<file, now, shown>>

\* The wall clock advances between two handlers.
Tick ==
    /\ now < MaxClock
    /\ now' = now + 1
    /\ UNCHANGED <<tasks, file, out, saved, shown>>

\* TodoManager("tasks.json") on a path where no file exists yet.
Init ==
    /\ file = NoFile
    /\ tasks = load_tasks(file, 0)
    /\ now = 0
    /\ out = ""
    /\ saved = FALSE
    /\ shown = <<>>

(***************************************************************************)
(* The inputs of the menu's prompts.                                       *)
(***************************************************************************)
Empty == <<>>
Blank == <<" ">>
Apple == <<"a","p","p","l","e">>
Banana == <<"B","a","n","a","n","a">>

\* int(input(...)): ids that can match and ids that cannot.
IdInputs == -1..(MaxId + 1)

SortChoices == {"1", "2", "3", "4"}

AddAllowed == generate_id(tasks) <= MaxId

\* A store of at most MaxFieldTasks tasks, for the specifications that vary
\* the text of the fields.
FewTasks == Len(tasks) < MaxFieldTasks /\ AddAllowed

(***************************************************************************)
(* Spec: tasks that differ in title and completion, up to MaxId of them,   *)
(* all handled within one second of the clock.                             *)
(***************************************************************************)
Titles == {Apple, Banana}
NewTitles == {Empty, Apple}

Next ==
    \/ /\ AddAllowed
       /\ \E title \in Titles : add_task(title, Empty, Medium, Empty, Empty)
    \/ \E task_id \in IdInputs : delete_task(task_id)
    \/ \E task_id \in IdInputs, title \in NewTitles :
          update_task(task_id, title, Empty, Empty, Empty, Empty)
    \/ \E task_id \in IdInputs : toggle_complete(task_id)
    \/ \E choice \in SortChoices : sort_tasks(choice)
    \/ Reopen

Spec == Init /\ [][Next]_vars

(***************************************************************************)
(* SpecPriority: raw priority text given to add and to update, while the   *)
(* clock advances.                                                         *)
(***************************************************************************)
Urgent == <<"u","r","g","e","n","t">>
AddPriorities == {Low, <<"H","I","G","H">>, Urgent, <<" ","l","o","w">>}
NewPriorities == {Empty, Blank, Urgent, <<"L","o","w">>, Medium, High}

NextPriority ==
    \/ /\ FewTasks
       /\ \E priority \in AddPriorities :
             add_task(Apple, Empty, priority, Empty, Empty)
    \/ \E task_id \in IdInputs : delete_task(task_id)
    \/ \E task_id \in IdInputs, priority \in NewPriorities :
          update_task(task_id, Empty, Empty, priority, Empty, Empty)
    \/ \E task_id \in IdInputs : toggle_complete(task_id)
    \/ \E choice \in SortChoices : sort_tasks(choice)
    \/ Reopen
    \/ Tick

SpecPriority == Init /\ [][NextPriority]_vars

(***************************************************************************)
(* SpecTags: raw comma-separated tag text given to add and to update.      *)
(***************************************************************************)
AddTagTexts == {Empty, <<"a",","," ","B",",",",">>}
NewTagTexts == {Empty, Blank, <<"b">>, <<"A",",",",","b"," ">>}

NextTags ==
    \/ /\ FewTasks
       /\ \E tags \in AddTagTexts : add_task(Apple, Empty, Medium, tags, Empty)
    \/ \E task_id \in IdInputs : delete_task(task_id)
    \/ \E task_id \in IdInputs, tags \in NewTagTexts :
          update_task(task_id, Empty, Empty, Empty, tags, Empty)
    \/ \E task_id \in IdInputs : toggle_complete(task_id)
    \/ \E choice \in SortChoices : sort_tasks(choice)
    \/ Reopen
    \/ Tick

SpecTags == Init /\ [][NextTags]_vars

(***************************************************************************)
(* SpecBlank: update given empty or whitespace-only text in every field.   *)
(***************************************************************************)
Milk == <<"m","i","l","k">>
Home == <<"h","o","m","e">>
Day == <<"2","0","2","5","-","0","1","-","0","2">>
BlankTexts == {Empty, Blank}

NextBlank ==
    \/ /\ FewTasks
       /\ add_task(Apple, Milk, High, Home, Day)
    \/ \E task_id \in IdInputs : delete_task(task_id)
    \/ \E task_id \in IdInputs, title \in BlankTexts, description \in BlankTexts,
          priority \in BlankTexts, tags \in BlankTexts, due_date \in BlankTexts :
          update_task(task_id, title, description, priority, tags, due_date)
    \/ \E task_id \in IdInputs : toggle_complete(task_id)
    \/ \E choice \in SortChoices : sort_tasks(choice)
    \/ Reopen
    \/ Tick

SpecBlank == Init /\ [][NextBlank]_vars

(***************************************************************************)
(* SpecSort: up to MaxId tasks that differ in title, priority and creation *)
(* time, added and sorted while the clock advances.                        *)
(***************************************************************************)
SortAdds == {<<Banana, High>>, <<Apple, Low>>, <<Apple, Medium>>}

NextSort ==
    \/ /\ AddAllowed
       /\ \E a \in SortAdds : add_task(a[1], Empty, a[2], Empty, Empty)
    \/ \E choice \in SortChoices : sort_tasks(choice)
    \/ Tick

SpecSort == Init /\ [][NextSort]_vars

(***************************************************************************)
(* SpecCrash: a run may end inside save_tasks, and the program is started  *)
(* again on the file that run left.                                        *)
(***************************************************************************)
NextCrash ==
    \/ /\ Running /\ AddAllowed
       /\ \E title \in Titles : add_task(title, Empty, Medium, Empty, Empty)
    \/ /\ Running
       /\ \E task_id \in IdInputs : delete_task(task_id)
    \/ /\ Running
       /\ \E task_id \in IdInputs : toggle_complete(task_id)
    \/ /\ Running /\ AddAllowed
       /\ \E title \in Titles :
             add_task_killed(title, Empty, Medium, Empty, Empty)
    \/ /\ Running
       /\ \E task_id \in IdInputs : toggle_complete_killed(task_id)
    \/ Reopen

SpecCrash == Init /\ [][NextCrash]_vars

(***************************************************************************)
(* SpecQuery: at most MaxQueryTasks tasks that differ in title,            *)
(* description, priority and completion, and the queries on them.          *)
(***************************************************************************)
Pie == <<"P","i","e">>
QueryAdds == {<<Apple, Empty, Low>>, <<Banana, Pie, High>>}
Keywords ==
    {Empty, <<"A","P">>, <<"a","n">>, <<"p","i","e">>, <<"x","y","z">>}
FilterChoices == {"1", "2", "3", "4"}
FilterPriorities == {Low, Medium, High, <<"H","I","G","H">>}
\* The choice, and the priority typed after choice "3".
FilterInputs ==
    {<<choice, Empty>> : choice \in FilterChoices \ {"3"}}
      \cup {<<"3", p>> : p \in FilterPriorities}

NextQuery ==
    \/ /\ Len(tasks) < MaxQueryTasks /\ AddAllowed
       /\ \E a \in QueryAdds : add_task(a[1], a[2], a[3], Empty, Empty)
    \/ \E task_id \in IdInputs : toggle_complete(task_id)
    \/ \E choice \in SortChoices : sort_tasks(choice)
    \/ view_tasks
    \/ \E keyword \in Keywords : search_tasks(keyword)
    \/ \E f \in FilterInputs : filter_tasks(f[1], f[2])

SpecQuery == Init /\ [][NextQuery]_vars

(***************************************************************************)
(* Properties.                                                             *)
(***************************************************************************)
Ids(ts) == {ts[i].id : i \in 1..Len(ts)}

Matches(task_id) == \E i \in 1..Len(tasks) : tasks[i].id = task_id

\* C1: in every reachable state no two tasks of the collection have the same
\* id, and every id is a positive integer.
C1_IdsUniquePositive ==
    \A i \in 1..Len(tasks) :
        /\ tasks[i].id \in Nat
        /\ tasks[i].id >= 1
        /\ \A j \in 1..Len(tasks) : i # j => tasks[i].id # tasks[j].id

\* Three tasks, out of id order after a sort, the last one just added.
C1_Witness ==
    /\ Len(tasks) = 3
    /\ tasks[1].id > tasks[2].id
    /\ out = "Task added successfully!"

\* The records of the backing file; an absent file counts as no records.
FileRecords == IF file.exists THEN json_load(file.data) ELSE <<>>

\* C2: after construction and after every handler, the backing file holds
\* one record per task of the collection, in the collection's order, each
\* equal to its task field for field.
C2_FileMatchesMemory ==
    /\ Len(FileRecords) = Len(tasks)
    /\ \A i \in 1..Len(tasks) :
          /\ FileRecords[i].id = tasks[i].id
          /\ FileRecords[i].title = tasks[i].title
          /\ FileRecords[i].description = tasks[i].description
          /\ FileRecords[i].priority = tasks[i].priority
          /\ FileRecords[i].tags = tasks[i].tags
          /\ FileRecords[i].due_date = tasks[i].due_date
          /\ FileRecords[i].completed = tasks[i].completed
          /\ FileRecords[i].created_at = tasks[i].created_at

\* A completion toggle on a reordered two-task store has been written.
C2_Witness ==
    /\ Len(tasks) = 2
    /\ tasks[1].id = 2
    /\ tasks[1].completed
    /\ out = "Task status changed."
    /\ file.exists

\* C3: in every reachable state every task's priority is low, medium or high.
C3_PriorityEnumerated ==
    \A i \in 1..Len(tasks) : tasks[i].priority \in {Low, Medium, High}

\* A task added with unrecognised text (so medium) and then updated to high.
C3_Witness ==
    /\ Len(tasks) = 1
    /\ tasks[1].priority = High
    /\ out = "Task updated."

\* C4: in every reachable state each tag of each task is non-empty, has no
\* leading or trailing whitespace, and is lowercase.
C4_TagsNormalised ==
    \A i \in 1..Len(tasks) : \A j \in 1..Len(tasks[i].tags) :
        LET tag == tasks[i].tags[j]
        IN /\ tag # <<>>
           /\ strip(tag) = tag
           /\ lower(tag) = tag

\* C5: no step changes the created_at of a task that is in the collection
\* before and after it, and only a delete takes an id out of the collection.
C5_IdAndCreatedAtImmutable ==
    [][/\ \A i \in 1..Len(tasks) : \A j \in 1..Len(tasks') :
             tasks'[j].id = tasks[i].id
                => tasks'[j].created_at = tasks[i].created_at
       /\ (\A task_id \in IdInputs : ~delete_task(task_id))
             => \A i \in 1..Len(tasks) : \E j \in 1..Len(tasks') :
                   /\ tasks'[j].id = tasks[i].id
                   /\ tasks'[j].created_at = tasks[i].created_at]_vars

\* A task created at second 0, toggled, and reloaded at second 1.
C5_Witness ==
    /\ Len(tasks) = 1
    /\ tasks[1].created_at = strftime(0)
    /\ tasks[1].completed
    /\ now = 1
    /\ out = ""

\* C6: every step that appends a task gives it the id 1 when the collection
\* was empty, and otherwise the id n such that n - 1 is an id of the
\* collection and every id of the collection is below n.
C6_AddAssignsMaxPlusOne ==
    [][Len(tasks') = Len(tasks) + 1 =>
          LET n == tasks'[Len(tasks')].id
          IN IF tasks = <<>>
             THEN n = 1
             ELSE /\ \E i \in 1..Len(tasks) : tasks[i].id = n - 1
                  /\ \A i \in 1..Len(tasks) : tasks[i].id < n]_vars

\* After task 1 of {1, 2} was deleted, the next add assigned 3, not 1 or 2.
C6_Witness ==
    /\ Len(tasks) = 2
    /\ tasks[1].id = 2
    /\ tasks[2].id = 3
    /\ out = "Task added successfully!"

\* C7: delete with an id that matches no task leaves the collection as it
\* was, saves, and reports "not found".
C7_DeleteReportsNotFound ==
    [][\A task_id \in IdInputs :
          (delete_task(task_id) /\ ~Matches(task_id))
             => /\ tasks' = tasks
                /\ saved'
                /\ out' = "Task not found."]_vars

\* C8: update and toggle_complete with an id that matches no task report
\* "not found", leave the collection as it was and do not write the file.
C8_NotFoundLeavesStore ==
    [][\A task_id \in IdInputs :
          (/\ ~Matches(task_id)
           /\ \/ \E title \in NewTitles :
                    update_task(task_id, title, Empty, Empty, Empty, Empty)
              \/ toggle_complete(task_id))
             => /\ out' = "Task not found."
                /\ tasks' = tasks
                /\ file' = file
                /\ ~saved']_vars

\* An id was not found in a store that holds tasks and a written file.
C8_Witness ==
    /\ Len(tasks) = 2
    /\ file.exists
    /\ out = "Task not found."
    /\ ~saved

\* C9: update of an existing task with every field empty or whitespace-only
\* leaves the whole collection as it was and saves.
C9_BlankUpdateChangesNothing ==
    [][\A task_id \in IdInputs :
       \A title \in BlankTexts, description \in BlankTexts,
          priority \in BlankTexts, tags \in BlankTexts, due_date \in BlankTexts :
          (/\ Matches(task_id)
           /\ update_task(task_id, title, description, priority, tags, due_date))
             => /\ tasks' = tasks
                /\ saved']_vars

\* Priority text outside {low, medium, high} as given, and after lower-casing.
Enumerated == {Low, Medium, High}

OutsideAsGiven(texts) == {p \in texts : p \notin Enumerated}

OutsideLowered(texts) == {p \in texts : lower(p) \notin Enumerated}

\* Every step that is add with a priority text of adds creates a medium
\* task, and every step that is update of an existing task with a priority
\* text of updates leaves that task's priority as it was.
CoercedByAddKeptByUpdate(adds, updates) ==
    /\ Len(tasks') = Len(tasks) + 1 =>
          \A priority \in adds :
             add_task(Apple, Empty, priority, Empty, Empty)
                => tasks'[Len(tasks')].priority = Medium
    /\ out' = "Task updated." =>
          \A task_id \in Ids(tasks) : \A priority \in updates :
             update_task(task_id, Empty, Empty, priority, Empty, Empty)
                => tasks'[find_task(tasks, task_id)].priority
                      = tasks[find_task(tasks, task_id)].priority

AddOutsideAsGiven == OutsideAsGiven(AddPriorities)
NewOutsideAsGiven == OutsideAsGiven(NewPriorities)
AddOutsideLowered == OutsideLowered(AddPriorities)
NewOutsideLowered == OutsideLowered(NewPriorities)

\* C10 as stated: add with priority text outside {low, medium, high} creates
\* a medium task, and update with such text leaves the priority as it was.
C10_AsStated ==
    [][CoercedByAddKeptByUpdate(AddOutsideAsGiven, NewOutsideAsGiven)]_vars

\* C10, amended: priority text that is outside {low, medium, high} after
\* lower-casing makes add create a medium task and makes update leave the
\* priority as it was.
C10_UnrecognisedPriority ==
    [][CoercedByAddKeptByUpdate(AddOutsideLowered, NewOutsideLowered)]_vars

\* A task that add made medium: no add input of SpecPriority spells medium.
C10_Witness ==
    /\ Len(tasks) = 1
    /\ tasks[1].priority = Medium
    /\ out = "Task added successfully!"


\* C11: after add the new task is the last element, the tasks that were
\* there are unchanged and in their order, and find_task with the new id
\* finds that last element, which has the fields add was given, is not
\* completed and carries the current time.
C11_AddAppendsFindable ==
    [][Len(tasks') = Len(tasks) + 1 =>
          LET n == Len(tasks')
          IN /\ SubSeq(tasks', 1, Len(tasks)) = tasks
             /\ find_task(tasks', tasks'[n].id) = n
             /\ \A i \in 1..Len(tasks) : tasks[i].id # tasks'[n].id
             /\ \E title \in Titles :
                   tasks'[n] = [id |-> tasks'[n].id,
                                title |-> title,
                                description |-> Empty,
                                priority |-> Medium,
                                tags |-> <<>>,
                                due_date |-> None,
                                completed |-> FALSE,
                                created_at |-> strftime(now)]]_vars

\* A third task was added behind two tasks, the first of them completed.
C11_Witness ==
    /\ Len(tasks) = 3
    /\ tasks[1].completed
    /\ tasks[3].title = Banana
    /\ ~tasks[3].completed
    /\ out = "Task added successfully!"


\* C12: in every reachable state, a store constructed on the backing file
\* holds the same tasks in the same order, each equal field for field to the
\* task in memory, and from_dict(to_dict(t)) is t for each of them, at
\* whatever later time the file is read.
C12_RoundTrip ==
    \A t \in now..(MaxClock + 1) :
        /\ LET loaded == load_tasks(file, t)
           IN /\ Len(loaded) = Len(tasks)
              /\ \A i \in 1..Len(tasks) :
                    /\ loaded[i].id = tasks[i].id
                    /\ loaded[i].title = tasks[i].title
                    /\ loaded[i].description = tasks[i].description
                    /\ loaded[i].priority = tasks[i].priority
                    /\ loaded[i].tags = tasks[i].tags
                    /\ loaded[i].due_date = tasks[i].due_date
                    /\ loaded[i].completed = tasks[i].completed
                    /\ loaded[i].created_at = tasks[i].created_at
        /\ \A i \in 1..Len(tasks) : from_dict(to_dict(tasks[i]), t) = tasks[i]

\* A task with a due date, tags and a blanked title, completed, and loaded
\* again a second after it was created.
C12_Witness ==
    /\ Len(tasks) = 1
    /\ tasks[1].title = Blank
    /\ tasks[1].due_date = <<Day>>
    /\ tasks[1].tags = <<Home>>
    /\ tasks[1].completed
    /\ tasks[1].created_at = strftime(0)
    /\ now = 1
    /\ out = ""


\* The order each sort mode asks for: low < medium < high; apple before
\* Banana (case-insensitive); earlier creation second first.
SortRank(choice, task) ==
    IF choice = "1"
    THEN CASE task.priority = Low -> 1
           [] task.priority = Medium -> 2
           [] task.priority = High -> 3
    ELSE IF choice = "2"
    THEN CASE task.title = Apple -> 1
           [] task.title = Banana -> 2
    ELSE CHOOSE t \in 0..(MaxClock + 1) : task.created_at = strftime(t)

Position(ts, task_id) == CHOOSE i \in 1..Len(ts) : ts[i].id = task_id

\* C13: a sort step leaves a permutation of the collection, in
\* non-decreasing order of the mode's key, tasks of equal key in their
\* previous relative order, and the file holds the new order.
C13_SortStablePermutation ==
    [][\A choice \in {"1", "2", "3"} :
          (/\ out' = "Tasks sorted."
           /\ now' = now
           /\ sort_tasks(choice))
             => /\ Len(tasks') = Len(tasks)
                /\ \A i \in 1..Len(tasks) : \E j \in 1..Len(tasks') :
                      tasks'[j] = tasks[i]
                /\ \A i \in 1..Len(tasks') : \A j \in (i + 1)..Len(tasks') :
                      /\ SortRank(choice, tasks'[i]) <= SortRank(choice, tasks'[j])
                      /\ SortRank(choice, tasks'[i]) = SortRank(choice, tasks'[j])
                            => Position(tasks, tasks'[i].id)
                                  < Position(tasks, tasks'[j].id)
                /\ saved'
                /\ FileRecords' = tasks']_vars

\* Tasks added as high, low, medium stand in the order low, medium, high.
C13_Witness ==
    /\ Len(tasks) = 3
    /\ tasks[1].id = 2 /\ tasks[1].priority = Low
    /\ tasks[2].id = 3 /\ tasks[2].priority = Medium
    /\ tasks[3].id = 1 /\ tasks[3].priority = High
    /\ out = "Tasks sorted."


\* The file exists and json.load rejects its text.
FileInvalid(f) == f.exists /\ ~json_valid(f.data)

\* C14: a store on a path without a file starts empty and without error;
\* on a file that is not valid JSON, construction ends with the decode
\* error at the caller and no store: no step leaves a running store, empty
\* or partial, on such a file.
C14_LoadAbsentOrInvalid ==
    [][/\ ~file'.exists => (tasks' = <<>> /\ out' \notin {DecodeError, Killed})
       /\ FileInvalid(file') => out' \in {DecodeError, Killed}
       /\ FileInvalid(file) =>
             /\ out' = DecodeError
             /\ tasks' = <<>>
             /\ file' = file]_vars

\* Construction has failed on a file that holds an opened list and one task.
C14_Witness ==
    /\ out = DecodeError
    /\ file.exists
    /\ Len(file.data) = 2
    /\ file.data[2].tok = "{}"

\* C17: a run that ends inside save_tasks leaves a file that json.load
\* rejects, so holding neither the collection before nor the one after, and
\* the next construction on it ends with the decode error, not with an
\* empty or partial collection.
C17_InterruptedSave ==
    [][/\ out' = Killed =>
             /\ file'.exists
             /\ ~json_valid(file'.data)
             /\ file' # file
       /\ out = Killed =>
             /\ out' = DecodeError
             /\ tasks' = <<>>]_vars

\* A run was killed after writing the first of two tasks and part of the
\* second.
C17_Witness ==
    /\ out = Killed
    /\ Len(file.data) = 3
    /\ file.data[2].tok = "{}"
    /\ file.data[3] = JsonCut


\* The fields of a task.
TaskFields ==
    {"id", "title", "description", "priority", "tags", "due_date",
     "completed", "created_at"}

\* C16: toggle_complete on the id of a stored task flips that task's
\* completed flag, changes no other field and no other task, and writes the
\* result to the file; toggling the same id once more gives back the
\* collection and the file from before the first toggle.
C16_ToggleFlipsAndRestores ==
    [][\A task_id \in IdInputs :
          (out' = "Task status changed." /\ toggle_complete(task_id)) =>
             LET k == find_task(tasks, task_id)
             IN /\ k # 0
                /\ Len(tasks') = Len(tasks)
                /\ tasks'[k].completed = ~tasks[k].completed
                /\ \A i \in 1..Len(tasks) : \A f \in TaskFields :
                      (i # k \/ f # "completed") => tasks'[i][f] = tasks[i][f]
                /\ FileRecords' = tasks'
                /\ find_task(tasks', task_id) = k
                /\ Toggled(tasks', k) = tasks
                /\ save_tasks(Toggled(tasks', k)) = file]_vars

\* A toggle has just acted on a collection holding a completed and an
\* uncompleted task.
C16_Witness ==
    /\ out = "Task status changed."
    /\ Len(tasks) = 2
    /\ tasks[1].completed
    /\ ~tasks[2].completed

\* C18: delete_task on the id of a stored task removes that task and keeps
\* the others as they were and in their order, in memory and in the file;
\* find_task no longer finds the id, and an id enters the collection only
\* as the id that add_task gives to the task it appends.
C18_DeleteRemovesExactlyOne ==
    [][/\ \A task_id \in IdInputs :
             (/\ out' = "Task deleted."
              /\ task_id \in Ids(tasks)
              /\ delete_task(task_id)) =>
                LET k == find_task(tasks, task_id)
                IN /\ Len(tasks') = Len(tasks) - 1
                   /\ \A i \in 1..Len(tasks') :
                         tasks'[i] = IF i < k THEN tasks[i] ELSE tasks[i + 1]
                   /\ find_task(tasks', task_id) = 0
                   /\ FileRecords' = tasks'
       /\ \A task_id \in Ids(tasks') \ Ids(tasks) :
             /\ out' = "Task added successfully!"
             /\ Len(tasks') = Len(tasks) + 1
             /\ tasks'[Len(tasks')].id = task_id
             /\ task_id = generate_id(tasks)]_vars

\* Task 2 has just been deleted from between tasks 1 and 3.
C18_Witness ==
    /\ out = "Task deleted."
    /\ Len(tasks) = 2
    /\ tasks[1].id = 1
    /\ tasks[2].id = 3


\* text contains k when the case of the letters is ignored.
ContainsIgnoringCase(text, k) ==
    \E p \in 0..(Len(text) - Len(k)) :
       \A j \in 1..Len(k) : LowerChar(text[p + j]) = LowerChar(k[j])

\* The ids and titles of the tasks of ts, in the order of ts.
IdsAndTitles(ts) == [i \in 1..Len(ts) |-> <<ts[i].id, ts[i].title>>]

\* The id and title of every line shown.
ShownIdsAndTitles(lines) ==
    [i \in 1..Len(lines) |-> <<lines[i][1], lines[i][2]>>]

\* What search_tasks prints before its results, or instead of them.
SearchMessages == {"No matching tasks.", "Search Results:"}

\* C15: a query lists exactly the tasks of the collection that satisfy its
\* predicate, in the collection's order: the completed ones, the ones not
\* completed, the ones whose priority is the text typed (none for a text
\* outside low/medium/high), and for a search the ones whose title or
\* description contains the keyword whatever the case of the letters, which
\* is every task for the empty keyword.
C15_QueriesExactSubsequence ==
    [][/\ filter_tasks("1", Empty) =>
             ShownIdsAndTitles(shown') =
                IdsAndTitles(SelectSeq(tasks, LAMBDA t : t.completed = TRUE))
       /\ filter_tasks("2", Empty) =>
             ShownIdsAndTitles(shown') =
                IdsAndTitles(SelectSeq(tasks, LAMBDA t : t.completed = FALSE))
       /\ \A p \in FilterPriorities :
             filter_tasks("3", p) =>
                /\ ShownIdsAndTitles(shown') =
                      IdsAndTitles(SelectSeq(tasks, LAMBDA t : t.priority = p))
                /\ ~InPriorityList(p) => shown' = <<>>
       /\ \A k \in Keywords :
             (out' \in SearchMessages /\ search_tasks(k)) =>
                /\ ShownIdsAndTitles(shown') =
                      IdsAndTitles(SelectSeq(tasks,
                         LAMBDA t : \/ ContainsIgnoringCase(t.title, k)
                                    \/ ContainsIgnoringCase(t.description, k)))
                /\ k = Empty => Len(shown') = Len(tasks)]_vars

\* A search has listed one of two stored tasks.
C15_Witness ==
    /\ out = "Search Results:"
    /\ Len(tasks) = 2
    /\ Len(shown) = 1

\* C19: view_tasks, search_tasks, filter_tasks and sort_tasks with a choice
\* other than 1, 2, 3 leave the tasks, their fields and their order as they
\* were and do not call save_tasks, so the file stays as it was.
C19_ReadOnlyOperations ==
    [][(\/ view_tasks
        \/ \E f \in FilterInputs : filter_tasks(f[1], f[2])
        \/ \E choice \in SortChoices \ {"1", "2", "3"} : sort_tasks(choice)
        \/ /\ out' \in SearchMessages
           /\ \E keyword \in Keywords : search_tasks(keyword)) =>
          /\ tasks' = tasks
          /\ file' = file
          /\ ~saved']_vars

\* sort_tasks has refused its choice on a store of two tasks whose file was
\* written before.
C19_Witness ==
    /\ out = "Invalid choice."
    /\ shown # <<>>
    /\ Len(tasks) = 2
    /\ file.exists

====
